---------------------------- MODULE Spec2Model ----------------------------
(***************************************************************************)
(* A model of src/src/ShortPositionUpdater.py: the ShortPositionAnalyzer   *)
(* object, its methods and the script that constructs it and calls         *)
(* execute().                                                              *)
(*                                                                         *)
(* Four specifications share the state:                                    *)
(*   Spec         the script (lines 180-181): one run of execute();        *)
(*   SpecAnalyze  a caller that downloads once and then calls              *)
(*                analyze_positions / display_results on the tables;       *)
(*   SpecNews     a caller that calls retrieve_news,                       *)
(*                embed_and_store_news and retrieve_news_with_rag in any   *)
(*                order on one constructed object;                         *)
(*   SpecIndex    a caller that fills the collection past the search limit *)
(*                and searches it.                                         *)
(*                                                                         *)
(* Modelling conventions.                                                  *)
(*  - A DataFrame is the sequence of its rows, a row a record of the five  *)
(*    columns the code reads.                                              *)
(*  - A method is an operator over the object's and the caller's           *)
(*    variables; the actions of the three specifications call it and add   *)
(*    op, pc and steps.                                                    *)
(*  - An exception is a record [type, line]; NoExc means the call          *)
(*    returned.  Nothing in the file catches anything but                  *)
(*    RequestException at line 67, so a raised exception ends the script.  *)
(*  - uuid.uuid4() is modelled by its contract: a value no earlier call    *)
(*    returned.  Identifiers are only ever compared for equality, so the   *)
(*    n-th call returns n.                                                 *)
(*  - The in-memory Qdrant collection is the sequence of its points in     *)
(*    insertion order; upsert replaces the point with an equal id or       *)
(*    appends.  search returns `limit` points of greatest cosine           *)
(*    similarity; which of several equally similar points make the cut is  *)
(*    left open (every admissible choice is a behaviour).                  *)
(***************************************************************************)
EXTENDS Integers, Sequences, FiniteSets

(***************************************************************************)
(* Bounds of the model.                                                    *)
(***************************************************************************)
\* rows of the ' Correnti - Current ' sheet
MaxCurRows == 3

\* rows of the ' Storiche - Historic ' sheet
MaxHistRows == 1

\* entries of one news feed / articles of one embed_and_store_news call
MaxFeed == 2

\* points the collection may hold before the caller of SpecIndex stops
\* adding articles
MaxPoints == 6

\* the same for the caller of SpecNews
MaxNewsPoints == 3

(***************************************************************************)
(* Data universe.                                                          *)
(***************************************************************************)
\* ISINs in ascending (lexicographic) order, the order groupby sorts keys in
ISINOrder == <<"IT0003128367", "IT0003132476">>

ISINs == {ISINOrder[i] : i \in DOMAIN ISINOrder}

Dates == {"2024-01-09", "2024-01-10"}

\* Sample disclosures: two issuers, two holders, two dates; the same ISIN
\* appears with two spellings of the issuer, the same holder twice under
\* one ISIN.  Net Short Position (%) is in hundredths of a percent.
Rows ==
  { [ISIN |-> "IT0003128367", PositionHolder |-> "AQR", NetShortPosition |-> 50,
     PositionDate |-> "2024-01-10", ShareIssuer |-> "ENEL"],
    [ISIN |-> "IT0003128367", PositionHolder |-> "Citadel", NetShortPosition |-> 120,
     PositionDate |-> "2024-01-10", ShareIssuer |-> "ENEL SPA"],
    [ISIN |-> "IT0003128367", PositionHolder |-> "AQR", NetShortPosition |-> 70,
     PositionDate |-> "2024-01-09", ShareIssuer |-> "ENEL"],
    [ISIN |-> "IT0003132476", PositionHolder |-> "AQR", NetShortPosition |-> 50,
     PositionDate |-> "2024-01-09", ShareIssuer |-> "ENI"],
    [ISIN |-> "IT0003132476", PositionHolder |-> "Citadel", NetShortPosition |-> 90,
     PositionDate |-> "2024-01-10", ShareIssuer |-> "ENI"] }

SeqsUpTo(S, n) == UNION {[1..k -> S] : k \in 0..n}

\* What the three sheets of a downloaded workbook parse to.
Workbooks ==
  [current : SeqsUpTo(Rows, MaxCurRows),
   historical : SeqsUpTo(Rows, MaxHistRows),
   date : Dates]

\* News articles: (title, url) pairs.  Two share a title, two share a url.
Articles ==
  { [title |-> "Enel shorts rise", url |-> "https://a.example/1"],
    [title |-> "Enel shorts rise", url |-> "https://b.example/2"],
    [title |-> "Apple earnings", url |-> "https://a.example/1"] }

Feeds == SeqsUpTo(Articles, MaxFeed)

\* the feeds of SpecIndex: two articles of different titles
IndexFeeds == SeqsUpTo({a \in Articles : a.url = "https://a.example/1"}, MaxFeed)

NoExc == [type |-> "none", line |-> 0]

Raised(t, l) == [type |-> t, line |-> l]

VARIABLES
  attrs,                    \* names of the attributes assigned on self
  pubblication_date,        \* self.pubblication_date ("" while unassigned)
  collections,              \* names of the collections of self.qdrant
  points,                   \* the points of collection COLLECTION_NAME
  uuids,                    \* how many identifiers uuid.uuid4() has returned
  requests,                 \* HTTP requests issued by the most recent call
  stdout,                   \* everything printed so far
  files,                    \* number of spreadsheets written under destfile
  op,                       \* the method called most recently
  exc,                      \* the exception it raised, or NoExc
  bound,                    \* the caller's variables that hold a value
  current, historical,      \* the tables download_file returned
  new_positions, closed_positions, short_positions_by_asset,
  articles,                 \* `articles` of the most recent call (<<>> if none)
  results,                  \* `results` of the most recent call (line 135; <<>> if none)
  pc, steps,                \* position of execute() and the methods it entered
  stored, upserted,         \* history: articles passed to embed_and_store_news
  runs                      \* history: analyze_positions calls that returned (0, 1, 2+)

vars ==
  <<attrs, pubblication_date, collections, points, uuids, requests, stdout,
    files, op, exc, bound, current, historical, new_positions,
    closed_positions, short_positions_by_asset, articles, results, pc, steps,
    stored, upserted, runs>>

objVars == <<attrs, pubblication_date>>

storeVars == <<collections, points, uuids, stored, upserted>>

tableVars == <<current, historical>>

analysisVars == <<new_positions, closed_positions, short_positions_by_asset>>

newsVars == <<articles, results>>

(***************************************************************************)
(* __init__ (lines 14-37).                                                 *)
(***************************************************************************)
\* Fault variant of InitAttrs: a constructor that also reads the inference
\* endpoint from the configuration.
InitAttrsWithEndpoint ==
  {"url", "destfile", "news_endpoint", "news_api_key", "hugging_face_token",
   "qdrant", "COLLECTION_NAME", "DISTANCE", "encoder", "llm_inference_endpoint"}

\* the attributes the constructor assigns
InitAttrs ==
  {"url", "destfile", "news_endpoint", "news_api_key", "hugging_face_token",
   "qdrant", "COLLECTION_NAME", "DISTANCE", "encoder"}

COLLECTION_NAME == "Press news"

Init ==
  /\ attrs = InitAttrs
  /\ pubblication_date = ""
  /\ collections = {}
  /\ points = <<>>
  /\ uuids = 0
  /\ requests = <<>>
  /\ stdout = <<>>
  /\ files = 0
  /\ op = "__init__"
  /\ exc = NoExc
  /\ bound = {}
  /\ current = <<>>
  /\ historical = <<>>
  /\ new_positions = <<>>
  /\ closed_positions = <<>>
  /\ short_positions_by_asset = <<>>
  /\ articles = <<>>
  /\ results = <<>>
  /\ pc = "download_file"
  /\ steps = <<>>
  /\ stored = 0
  /\ upserted = {}
  /\ runs = 0

(***************************************************************************)
(* download_file (lines 39-69).                                            *)
(***************************************************************************)
\* How the GET of line 54 and the statements after it can go.
\*   "ok"            2xx, three sheets parsed, file written
\*   "network"       requests.get raises a RequestException (no answer)
\*   "http_error"    an answer with a non-2xx status: raise_for_status raises
\*   "bad_sheet"     2xx, a sheet is missing or the date does not parse
\*   "write_failed"  2xx, sheets parsed, open() of the destination fails
DownloadOutcomes == {"ok", "network", "http_error", "bad_sheet", "write_failed"}

RequestFailed(o) == o \in {"network", "http_error"}

DownloadStatus(o) ==
  CASE o = "network" -> 0
    [] o = "http_error" -> 503
    [] OTHER -> 200

\* Fault variant of DownloadLocals: the locals are pre-assigned before the
\* try block, so the return of line 69 succeeds after a failed request.
DownloadLocalsPreset(o) == {"current", "historical"}

\* The locals `current` and `historical` of download_file at line 69: bound
\* only when lines 56-59 ran.  The except clause of line 67 binds neither.
DownloadLocals(o) ==
  IF RequestFailed(o) THEN {} ELSE {"current", "historical"}

\* What download_file raises: ValueError out of the try block (only
\* RequestException is caught), OSError out of open(), and, after the
\* handler of lines 67-68 ran, UnboundLocalError at the return of line 69.
DownloadExc(o) ==
  CASE o = "bad_sheet" -> Raised("ValueError", 62)
    [] o = "write_failed" -> Raised("OSError", 63)
    [] OTHER ->
         IF {"current", "historical"} \subseteq DownloadLocals(o)
         THEN NoExc
         ELSE Raised("UnboundLocalError", 69)

DownloadPrinted(o) ==
  CASE o = "ok" -> <<"File downloaded successfully and saved to destfile">>
    [] RequestFailed(o) -> <<"An error occurred">>
    [] OTHER -> <<>>

download_file(o, wb) ==
  /\ requests' = <<[method |-> "GET", target |-> "url", status |-> DownloadStatus(o)]>>
  /\ exc' = DownloadExc(o)
  /\ stdout' = stdout \o DownloadPrinted(o)
  /\ IF o \in {"ok", "write_failed"}
     THEN /\ pubblication_date' = wb.date
          /\ attrs' = attrs \cup {"pubblication_date"}
     ELSE UNCHANGED objVars
  /\ files' = IF o = "ok" THEN files + 1 ELSE files
  /\ IF DownloadExc(o) = NoExc
     THEN /\ current' = wb.current
          /\ historical' = wb.historical
          /\ bound' = bound \cup {"current", "historical"}
     ELSE UNCHANGED <<tableVars, bound>>
  /\ UNCHANGED <<storeVars, analysisVars, newsVars, runs>>

(***************************************************************************)
(* analyze_positions (lines 71-83).                                        *)
(***************************************************************************)
\* Fault variant of FilterByDate: the last row of the table is not looked at.
FilterByDateOffByOne(table, d) ==
  SelectSeq(SubSeq(table, 1, Len(table) - 1), LAMBDA r : r.PositionDate = d)

\* table[table['Position Date'] == d]: the rows whose date equals d, in order
FilterByDate(table, d) == SelectSeq(table, LAMBDA r : r.PositionDate = d)

\* Fault variant of ColumnList: each value once, in order of first appearance
\* (the `unique` aggregation).
ColumnUnique(rows, col) ==
  LET firsts == {i \in DOMAIN rows : \A j \in 1..(i - 1) : rows[j][col] # rows[i][col]}
      pos(i) == Cardinality({j \in firsts : j =< i})
  IN [n \in 1..Cardinality(firsts) |-> rows[CHOOSE i \in firsts : pos(i) = n][col]]

\* the values of one column, in row order (the `list` aggregation)
ColumnList(rows, col) == [i \in DOMAIN rows |-> rows[i][col]]

\* the rows of one group, in input order
GroupRows(table, k) == SelectSeq(table, LAMBDA r : r.ISIN = k)

\* groupby('ISIN') sorts the group keys; keys are those present in the table
GroupKeys(table) ==
  SelectSeq(ISINOrder, LAMBDA k : \E i \in DOMAIN table : table[i].ISIN = k)

\* current.groupby('ISIN').agg({... list, ... list, ... 'first'}).reset_index()
GroupByISIN(table) ==
  LET keys == GroupKeys(table)
  IN [j \in DOMAIN keys |->
        LET g == GroupRows(table, keys[j])
        IN [ISIN |-> keys[j],
            PositionHolder |-> ColumnList(g, "PositionHolder"),
            NetShortPosition |-> ColumnList(g, "NetShortPosition"),
            ShareIssuer |-> g[1].ShareIssuer]]

\* Line 79 reads self.pubblication_date, which only download_file assigns
\* (line 62): AttributeError before anything is computed when it never did.
AnalyzeExc ==
  IF "pubblication_date" \notin attrs THEN Raised("AttributeError", 79) ELSE NoExc

\* Fault variant of analyze_positions: the filter is applied to `current`
\* in place, so the caller's table loses the rows of other dates.
analyze_positions_inplace ==
  /\ exc' = AnalyzeExc
  /\ requests' = <<>>
  /\ IF AnalyzeExc = NoExc
     THEN /\ new_positions' = FilterByDate(current, pubblication_date)
          /\ closed_positions' = FilterByDate(historical, pubblication_date)
          /\ short_positions_by_asset' = GroupByISIN(current)
          /\ current' = FilterByDate(current, pubblication_date)
          /\ bound' = bound \cup {"new_positions", "closed_positions",
                                  "short_positions_by_asset"}
     ELSE UNCHANGED <<analysisVars, bound, current>>
  /\ runs' = IF AnalyzeExc = NoExc /\ runs < 2 THEN runs + 1 ELSE runs
  /\ UNCHANGED <<objVars, storeVars, historical, newsVars, stdout, files>>

analyze_positions ==
  /\ exc' = AnalyzeExc
  /\ requests' = <<>>
  /\ IF AnalyzeExc = NoExc
     THEN /\ new_positions' = FilterByDate(current, pubblication_date)
          /\ closed_positions' = FilterByDate(historical, pubblication_date)
          /\ short_positions_by_asset' = GroupByISIN(current)
          /\ bound' = bound \cup {"new_positions", "closed_positions",
                                  "short_positions_by_asset"}
     ELSE UNCHANGED <<analysisVars, bound>>
  /\ runs' = IF AnalyzeExc = NoExc /\ runs < 2 THEN runs + 1 ELSE runs
  /\ UNCHANGED <<objVars, storeVars, tableVars, newsVars, stdout, files>>

(***************************************************************************)
(* display_results (lines 156-166).                                        *)
(***************************************************************************)
DisplayPrinted(n, c, a) ==
  << [label |-> "New Short Positions:", table |-> n],
     [label |-> "Closed Short Positions:", table |-> c],
     [label |-> "Short Positions by Asset:", table |-> a] >>

(***************************************************************************)
(* retrieve_news (lines 85-97).                                            *)
(***************************************************************************)
\* JSON bodies the news endpoint may answer with: a feed, or no 'feed' key
Bodies(feeds) == {[feed |-> f] : f \in feeds} \cup {[Information |-> "rate limit"]}

\* What line 92 may get: a 200 with any body, a 203 (a proxy's copy of the
\* answer) with a one-item feed or none, an error status with an error
\* body, or no answer at all (status 0: requests.get raises).
NewsResponses(feeds) ==
  [status : {200}, body : Bodies(feeds)]
    \cup [status : {203}, body : Bodies({f \in feeds : Len(f) = 1})]
    \cup [status : {404, 500}, body : {[Information |-> "error"]}]
    \cup {[status |-> 0, body |-> [Information |-> "no answer"]]}

\* dict.get(key, default)
DictGet(d, key, default) == IF key \in DOMAIN d THEN d[key] ELSE default

\* Fault variant of NewsArticles: the test is response.ok (status below 400)
\* instead of status_code == 200.
NewsArticlesIfOk(resp) ==
  IF resp.status > 0 /\ resp.status < 400
  THEN LET feed == DictGet(resp.body, "feed", <<>>)
       IN [i \in DOMAIN feed |-> [title |-> feed[i].title, url |-> feed[i].url]]
  ELSE <<>>

\* lines 93-97: the (title, url) pairs of the feed on status 200, else []
NewsArticles(resp) ==
  IF resp.status = 200
  THEN LET feed == DictGet(resp.body, "feed", <<>>)
       IN [i \in DOMAIN feed |-> [title |-> feed[i].title, url |-> feed[i].url]]
  ELSE <<>>

\* line 92 raises when no answer arrives; nothing else in the method raises
NewsExc(resp) ==
  IF resp.status = 0 THEN Raised("ConnectionError", 92) ELSE NoExc

NewsRequest(resp) ==
  [method |-> "GET", target |-> "news_endpoint", status |-> resp.status]

retrieve_news(resp) ==
  /\ requests' = <<NewsRequest(resp)>>
  /\ exc' = NewsExc(resp)
  /\ articles' = IF NewsExc(resp) = NoExc THEN NewsArticles(resp) ELSE <<>>
  /\ results' = <<>>
  /\ UNCHANGED <<objVars, storeVars, tableVars, analysisVars, bound, stdout,
                 files, runs>>

(***************************************************************************)
(* embed_and_store_news (lines 99-122).                                    *)
(***************************************************************************)
\* self.encoder.encode(text): a fixed map from text to a vector
Encode(text) ==
  CASE text = "Short selling" -> <<3, 4>>
    [] text = "Enel shorts rise" -> <<4, 3>>
    [] text = "Apple earnings" -> <<-2, 1>>
    [] OTHER -> <<1, 0>>

\* the n-th call of uuid.uuid4() since the process started (n counted from 0)
Uuid4(n) == n + 1

\* Fault variant of PointStruct: the identifier is derived from the title
\* (as uuid5 of the title would be) instead of taken from uuid4.
PointStructTitleId(article, unique_id) ==
  [id |-> IF article.title = "Enel shorts rise" THEN 1001 ELSE 1002,
   vector |-> Encode(article.title),
   payload |-> [title |-> article.title, url |-> article.url]]

\* lines 117-121
PointStruct(article, unique_id) ==
  [id |-> unique_id,
   vector |-> Encode(article.title),
   payload |-> [title |-> article.title, url |-> article.url]]

\* qdrant.upsert of one point: replace the point of the same id, else insert
Upsert(pts, p) ==
  IF \E i \in DOMAIN pts : pts[i].id = p.id
  THEN [i \in DOMAIN pts |-> IF pts[i].id = p.id THEN p ELSE pts[i]]
  ELSE Append(pts, p)

\* the loop of lines 112-122, n identifiers having been generated before it
RECURSIVE StoreArticles(_, _, _)
StoreArticles(pts, arts, n) ==
  IF arts = <<>> THEN pts
  ELSE StoreArticles(Upsert(pts, PointStruct(Head(arts), Uuid4(n))), Tail(arts), n + 1)

\* Fault variant of EnsureCollection: the collection is created only when
\* there is an article to store.
EnsureCollectionIfAny(arts) ==
  IF arts = <<>> THEN collections ELSE collections \cup {COLLECTION_NAME}

\* lines 105-110: the collection is created, if absent, before the loop and
\* whatever the length of `articles`
EnsureCollection(arts) == collections \cup {COLLECTION_NAME}

ArticleSet(arts) == {arts[i] : i \in DOMAIN arts}

embed_and_store(arts) ==
  /\ collections' = EnsureCollection(arts)
  /\ points' = StoreArticles(points, arts, uuids)
  /\ uuids' = uuids + Len(arts)
  /\ stored' = stored + Len(arts)
  /\ upserted' = upserted \cup ArticleSet(arts)

embed_and_store_news(arts) ==
  /\ embed_and_store(arts)
  /\ articles' = arts
  /\ exc' = NoExc
  /\ requests' = <<>>
  /\ results' = <<>>
  /\ UNCHANGED <<objVars, tableVars, analysisVars, bound, stdout, files, runs>>

(***************************************************************************)
(* qdrant.search with cosine distance (lines 134-140).                     *)
(***************************************************************************)
Dot(a, b) == a[1] * b[1] + a[2] * b[2]

\* cos(a, q) >= cos(b, q), compared exactly: Dot(a,q)/|a| >= Dot(b,q)/|b|
AtLeastAsSimilar(a, b, q) ==
  LET x == Dot(a, q)
      y == Dot(b, q)
  IN CASE x >= 0 /\ y < 0 -> TRUE
       [] x < 0 /\ y >= 0 -> FALSE
       [] x >= 0 /\ y >= 0 -> x * x * Dot(b, b) >= y * y * Dot(a, a)
       [] OTHER -> x * x * Dot(b, b) =< y * y * Dot(a, a)

Min(a, b) == IF a < b THEN a ELSE b

\* the points strictly more similar to q than point i
Closer(pts, q, i) ==
  {j \in DOMAIN pts : ~AtLeastAsSimilar(pts[i].vector, pts[j].vector, q)}

\* the points as similar to q as point i
Equal(pts, q, i) ==
  {j \in DOMAIN pts : /\ AtLeastAsSimilar(pts[i].vector, pts[j].vector, q)
                       /\ AtLeastAsSimilar(pts[j].vector, pts[i].vector, q)}

\* the index sets search may return: `limit` points (all, when there are
\* fewer), none less similar to the query than a point left out.  Points
\* whose whole similarity class fits are in; the class on the boundary
\* fills the rest, in any way.
TopSets(pts, q, limit) ==
  LET k == Min(limit, Len(pts))
      sure == {i \in DOMAIN pts :
                 Cardinality(Closer(pts, q, i) \cup Equal(pts, q, i)) =< k}
      edge == {i \in DOMAIN pts \ sure : Cardinality(Closer(pts, q, i)) < k}
  IN {sure \cup T : T \in {U \in SUBSET edge : Cardinality(U) = k - Cardinality(sure)}}

\* the points of S, most similar first, earlier insertions first among equals
RECURSIVE Ranked(_, _, _)
Ranked(pts, S, q) ==
  IF S = {} THEN <<>>
  ELSE LET best == CHOOSE i \in S : \A j \in S :
                     \/ ~AtLeastAsSimilar(pts[j].vector, pts[i].vector, q)
                     \/ (AtLeastAsSimilar(pts[i].vector, pts[j].vector, q) /\ i =< j)
       IN <<[id |-> pts[best].id, payload |-> pts[best].payload]>>
            \o Ranked(pts, S \ {best}, q)

\* Fault variant of Search: the limit is not applied.
SearchNoLimit(pts, q, limit) == {Ranked(pts, DOMAIN pts, q)}

\* every result list search(query_vector=q, limit=limit, with_payload=True)
\* may return
Search(pts, q, limit) == {Ranked(pts, S, q) : S \in TopSets(pts, q, limit)}

\* limit=5 (line 138)
SearchLimit == 5

(***************************************************************************)
(* retrieve_news_with_rag (lines 124-154).  It prints nothing; stdout is   *)
(* left to the caller's action.                                            *)
(***************************************************************************)
\* line 152 evaluates self.llm_inference_endpoint before requests.post is
\* called
InferenceExc ==
  IF "llm_inference_endpoint" \in attrs THEN NoExc ELSE Raised("AttributeError", 152)

InferenceRequest ==
  [method |-> "POST", target |-> "llm_inference_endpoint", status |-> 200]

retrieve_news_with_rag(resp) ==
  IF NewsExc(resp) # NoExc
  THEN \* line 131 raises: nothing after it runs
       /\ requests' = <<NewsRequest(resp)>>
       /\ exc' = NewsExc(resp)
       /\ articles' = <<>>
       /\ results' = <<>>
       /\ UNCHANGED <<objVars, storeVars, tableVars, analysisVars, bound, files,
                      runs>>
  ELSE /\ articles' = NewsArticles(resp)
       /\ embed_and_store(NewsArticles(resp))
       /\ IF COLLECTION_NAME \in collections'
          THEN /\ results' \in Search(points', Encode("Short selling"), SearchLimit)
               /\ exc' = InferenceExc
               /\ requests' = IF InferenceExc = NoExc
                              THEN <<NewsRequest(resp), InferenceRequest>>
                              ELSE <<NewsRequest(resp)>>
          ELSE \* search on a collection that does not exist
               /\ results' = <<>>
               /\ exc' = Raised("ValueError", 135)
               /\ requests' = <<NewsRequest(resp)>>
       /\ UNCHANGED <<objVars, tableVars, analysisVars, bound, files, runs>>

(***************************************************************************)
(* Spec: the script.  execute (lines 168-177) called once on a fresh       *)
(* object (lines 180-181).                                                 *)
(***************************************************************************)
\* The workbooks the regulator's URL serves in Spec: the short ones, and
\* the one of the scenario (three current rows and one historical row of
\* the publication date).
SampleWorkbooks ==
  LET r == CHOOSE x \in Rows : x.PositionDate = "2024-01-10" /\ x.PositionHolder = "AQR"
      s == CHOOSE x \in Rows : x.PositionDate = "2024-01-10" /\ x.ShareIssuer = "ENI"
  IN {wb \in Workbooks : Len(wb.current) =< MaxHistRows}
       \cup {[current |-> <<r, s, r>>, historical |-> <<s>>, date |-> "2024-01-10"]}

Next_pc(normal) == IF exc' = NoExc THEN normal ELSE "terminated"

\* line 172
ExecDownload ==
  /\ pc = "download_file"
  /\ \E o \in DownloadOutcomes : \E wb \in SampleWorkbooks : download_file(o, wb)
  /\ op' = "download_file"
  /\ steps' = Append(steps, "download_file")
  /\ pc' = Next_pc("analyze_positions")

\* lines 173-174
ExecAnalyze ==
  /\ pc = "analyze_positions"
  /\ analyze_positions
  /\ op' = "analyze_positions"
  /\ steps' = Append(steps, "analyze_positions")
  /\ pc' = Next_pc("retrieve_news_with_rag")

\* lines 175-177: display_results runs when retrieve_news_with_rag returns
ExecRagAndDisplay ==
  /\ pc = "retrieve_news_with_rag"
  /\ \E resp \in NewsResponses(Feeds) : retrieve_news_with_rag(resp)
  /\ IF exc' = NoExc
     THEN /\ op' = "display_results"
          /\ steps' = steps \o <<"retrieve_news_with_rag", "display_results">>
          /\ stdout' = stdout \o DisplayPrinted(new_positions, closed_positions,
                                                short_positions_by_asset)
          /\ pc' = "done"
     ELSE /\ op' = "retrieve_news_with_rag"
          /\ steps' = Append(steps, "retrieve_news_with_rag")
          /\ stdout' = stdout
          /\ pc' = "terminated"

Next == ExecDownload \/ ExecAnalyze \/ ExecRagAndDisplay

Spec == Init /\ [][Next]_vars

(***************************************************************************)
(* SpecAnalyze: a caller holding one object downloads the spreadsheet once *)
(* and calls analyze_positions and display_results on what it got.         *)
(***************************************************************************)
CallDownload ==
  /\ stdout = <<>>
  /\ "pubblication_date" \notin attrs
  /\ \E o \in DownloadOutcomes : \E wb \in Workbooks : download_file(o, wb)
  /\ op' = "download_file"
  /\ UNCHANGED <<pc, steps>>

CallAnalyze ==
  /\ analyze_positions
  /\ op' = "analyze_positions"
  /\ UNCHANGED <<pc, steps>>

CallDisplay ==
  /\ "short_positions_by_asset" \in bound
  /\ Len(stdout) =< 1
  /\ stdout' = stdout \o DisplayPrinted(new_positions, closed_positions,
                                        short_positions_by_asset)
  /\ op' = "display_results"
  /\ exc' = NoExc
  /\ requests' = <<>>
  /\ UNCHANGED <<objVars, storeVars, tableVars, analysisVars, newsVars, bound,
                 files, runs, pc, steps>>

NextAnalyze == CallDownload \/ CallAnalyze \/ CallDisplay

SpecAnalyze == Init /\ [][NextAnalyze]_vars

(***************************************************************************)
(* SpecNews: a caller holding one object calls the news methods in any     *)
(* order, until the collection holds MaxNewsPoints points.                 *)
(* SpecIndex: a caller fills the collection up to MaxPoints points, by     *)
(* embed_and_store_news and retrieve_news_with_rag.                        *)
(***************************************************************************)
CallRetrieveNews ==
  /\ \E resp \in NewsResponses(Feeds) : retrieve_news(resp)
  /\ op' = "retrieve_news"
  /\ UNCHANGED <<pc, steps>>

CallEmbedAndStoreNews(feeds, cap) ==
  /\ \E arts \in feeds :
       /\ Len(points) + Len(arts) =< cap
       /\ embed_and_store_news(arts)
  /\ op' = "embed_and_store_news"
  /\ UNCHANGED <<pc, steps>>

CallRetrieveNewsWithRag(feeds, cap) ==
  /\ \E resp \in NewsResponses(feeds) :
       /\ Len(points) + Len(NewsArticles(resp)) =< cap
       /\ retrieve_news_with_rag(resp)
  /\ op' = "retrieve_news_with_rag"
  /\ UNCHANGED <<stdout, pc, steps>>

NextNews ==
  \/ CallRetrieveNews
  \/ CallEmbedAndStoreNews(Feeds, MaxNewsPoints)
  \/ CallRetrieveNewsWithRag(Feeds, MaxNewsPoints)

SpecNews == Init /\ [][NextNews]_vars

NextIndex ==
  \/ CallEmbedAndStoreNews(IndexFeeds, MaxPoints)
  \/ CallRetrieveNewsWithRag(IndexFeeds, MaxPoints)

SpecIndex == Init /\ [][NextIndex]_vars

(***************************************************************************)
(* Properties.                                                             *)
(***************************************************************************)
Count(seq, r) == Cardinality({i \in DOMAIN seq : seq[i] = r})

\* `out` holds the rows of `table` dated d, each as often as the table
\* does, and no other row
ExactlyRowsOfDate(out, table, d) ==
  /\ \A i \in DOMAIN out : out[i].PositionDate = d
  /\ \A r \in Rows : Count(out, r) = IF r.PositionDate = d THEN Count(table, r) ELSE 0
  /\ Len(out) = Cardinality({i \in DOMAIN table : table[i].PositionDate = d})

Analyzed == "short_positions_by_asset" \in bound

\* C1 (SpecAnalyze): after analyze_positions, new_positions is exactly the
\* rows of the current table whose Position Date equals the publication
\* date, and closed_positions exactly those of the historical table: no row
\* of another date is included, no row of that date is left out.
C1_FilterByPublicationDate ==
  Analyzed =>
    /\ ExactlyRowsOfDate(new_positions, current, pubblication_date)
    /\ ExactlyRowsOfDate(closed_positions, historical, pubblication_date)

\* the scenario: three current rows and one historical row of the
\* publication date give three new and one closed position
C1_Witness ==
  /\ Analyzed
  /\ Len(current) = 3
  /\ \A i \in DOMAIN current : current[i].PositionDate = pubblication_date
  /\ Len(historical) = 1
  /\ historical[1].PositionDate = pubblication_date
  /\ Len(new_positions) = 3
  /\ Len(closed_positions) = 1

\* C2 (SpecAnalyze): for every ISIN I of the current table the aggregate
\* has exactly one row for I; its holder list is the Position Holder values
\* of the current rows with ISIN = I, in input order and with repetitions,
\* so as long as there are such rows.
C2_HoldersPerISIN ==
  Analyzed =>
    \A I \in {current[i].ISIN : i \in DOMAIN current} :
      LET idx == {i \in DOMAIN current : current[i].ISIN = I}
          agg == {j \in DOMAIN short_positions_by_asset :
                    short_positions_by_asset[j].ISIN = I}
      IN /\ Cardinality(agg) = 1
         /\ \A j \in agg :
              LET holders == short_positions_by_asset[j].PositionHolder
              IN /\ Len(holders) = Cardinality(idx)
                 /\ \A i \in idx :
                      holders[Cardinality({m \in idx : m =< i})]
                        = current[i].PositionHolder

\* one holder twice under one ISIN, a row of the other ISIN in between
C2_Witness ==
  /\ Analyzed
  /\ Len(current) = 3
  /\ current[1].ISIN = current[3].ISIN
  /\ current[1].ISIN # current[2].ISIN
  /\ current[1].PositionHolder = current[3].PositionHolder
  /\ \E j \in DOMAIN short_positions_by_asset :
       /\ short_positions_by_asset[j].ISIN = current[1].ISIN
       /\ Len(short_positions_by_asset[j].PositionHolder) = 2

\* C3 (SpecAnalyze): a call of analyze_positions leaves the two tables and
\* the recorded publication date as they were, and a call that follows an
\* earlier one on the same tables returns what the earlier one returned.
C3_AnalyzeIsPure ==
  [][(op' = "analyze_positions" /\ exc' = NoExc) =>
       /\ current' = current
       /\ historical' = historical
       /\ pubblication_date' = pubblication_date
       /\ attrs' = attrs
       /\ (runs >= 1 => analysisVars' = analysisVars)]_vars

\* analyze_positions has returned twice, with rows in all three outputs
C3_Witness ==
  /\ op = "analyze_positions"
  /\ runs = 2
  /\ new_positions # <<>>
  /\ closed_positions # <<>>
  /\ Len(new_positions) < Len(current)

NewsAnswered(status) ==
  /\ op \in {"retrieve_news", "retrieve_news_with_rag"}
  /\ Len(requests) >= 1
  /\ requests[1].target = "news_endpoint"
  /\ requests[1].status = status

\* C4 (SpecNews): when the news endpoint answers with a status other than
\* 200, retrieve_news returns the empty list and raises nothing, and the
\* call has issued the one GET and no other (no retry).
C4_Non200GivesEmptyList ==
  \A status \in {203, 404, 500} :
    NewsAnswered(status) =>
      /\ articles = <<>>
      /\ exc.line \notin 85..97
      /\ (op = "retrieve_news" => exc = NoExc /\ Len(requests) = 1)
      /\ \A i \in 2..Len(requests) : requests[i].target # "news_endpoint"

C4_Witness ==
  /\ op = "retrieve_news"
  /\ NewsAnswered(404)
  /\ articles = <<>>
  /\ exc = NoExc

\* the embed_and_store_news call on the empty list that follows a 404:
\* inside retrieve_news_with_rag, or made by the caller on what
\* retrieve_news returned
EmbedAfter404 ==
  \/ /\ op' = "retrieve_news_with_rag"
     /\ requests'[1].status = 404
  \/ /\ NewsAnswered(404)
     /\ op = "retrieve_news"
     /\ op' = "embed_and_store_news"
     /\ articles' = articles

\* C5 as stated (SpecNews): after a 404, retrieve_news returns [] and the
\* embed_and_store_news call on it creates no collection and leaves the
\* vector store unchanged.
C5_NoCollectionCreated ==
  [][EmbedAfter404 =>
       /\ articles' = <<>>
       /\ collections' = collections
       /\ points' = points]_vars

\* C5 amended (SpecNews): after a 404, retrieve_news returns [] and the
\* embed_and_store_news call on it stores no point and generates no
\* identifier, but it creates the collection if it does not exist yet.
C5_NoPointStored ==
  [][EmbedAfter404 =>
       /\ articles' = <<>>
       /\ points' = points
       /\ uuids' = uuids
       /\ collections' = collections \cup {COLLECTION_NAME}]_vars

\* a 404 on a fresh object: the collection exists and is empty
C5_Witness ==
  /\ op = "retrieve_news_with_rag"
  /\ NewsAnswered(404)
  /\ articles = <<>>
  /\ collections = {COLLECTION_NAME}
  /\ points = <<>>
  /\ stored = 0

\* C6 (SpecIndex): when retrieve_news_with_rag has searched, N articles
\* having been upserted in all, the search returned min(5, N) results, so
\* at most 5, and each carries the title and url of an upserted article.
C6_SearchReturnsAtMostFive ==
  (op = "retrieve_news_with_rag" /\ exc.line = 152) =>
    /\ Len(results) =< 5
    /\ Len(results) = (IF stored < 5 THEN stored ELSE 5)
    /\ \A i \in DOMAIN results :
         \E a \in upserted :
           results[i].payload = [title |-> a.title, url |-> a.url]

\* more than five articles upserted, of both titles, five results
C6_Witness ==
  /\ op = "retrieve_news_with_rag"
  /\ exc.line = 152
  /\ stored >= 6
  /\ Cardinality(upserted) = 2
  /\ Len(results) = 5

\* C7 (SpecNews): the collection holds one point per article passed to
\* embed_and_store_news, the points have distinct identifiers and carry
\* the articles' titles and urls, and no step overwrites, updates or
\* deletes a point.
C7_OnePointPerArticle ==
  /\ [](/\ Len(points) = stored
        /\ \A i, j \in DOMAIN points : i # j => points[i].id # points[j].id
        /\ {points[i].payload : i \in DOMAIN points} = upserted)
  /\ [][/\ Len(points') >= Len(points)
        /\ SubSeq(points', 1, Len(points)) = points]_vars

\* two points of one title and different urls, and two of the same article
C7_Witness ==
  /\ \E i, j \in DOMAIN points :
       /\ points[i].payload.title = points[j].payload.title
       /\ points[i].payload.url # points[j].payload.url
       /\ points[i].id # points[j].id
  /\ \E i, j \in DOMAIN points :
       /\ i # j
       /\ points[i].payload = points[j].payload
       /\ points[i].id # points[j].id

\* the state download_file leaves after a GET that failed: no answer, or an
\* answer with a non-2xx status
DownloadFailed ==
  /\ op = "download_file"
  /\ Len(requests) = 1
  /\ requests[1].status \notin 200..299

\* C8 as stated (Spec): after a failed GET download_file has printed a
\* message and returned to the driver, which goes on to analyze_positions.
C8_ExecutionContinues ==
  DownloadFailed =>
    /\ stdout = <<"An error occurred">>
    /\ exc = NoExc
    /\ pc = "analyze_positions"

\* C8 amended (Spec): after a failed GET download_file has caught the
\* error and printed a message, and its return statement has raised
\* UnboundLocalError (line 69), which nothing catches: the script ends in
\* download_file, and analyze_positions and the later steps do not run.
C8_DownloadFailureEndsScript ==
  DownloadFailed =>
    /\ stdout = <<"An error occurred">>
    /\ exc = Raised("UnboundLocalError", 69)
    /\ pc = "terminated"
    /\ steps = <<"download_file">>
    /\ bound = {}

C8_Witness ==
  /\ DownloadFailed
  /\ requests[1].status = 503
  /\ stdout = <<"An error occurred">>
  /\ pc = "terminated"

\* execute has ended after a run in which the download, the parsing and
\* the news request succeeded
SuccessfulRunEnded ==
  /\ pc \in {"done", "terminated"}
  /\ Len(steps) >= 3
  /\ Len(requests) >= 1
  /\ requests[1].target = "news_endpoint"
  /\ requests[1].status = 200

\* C9 (Spec): a run in which the download, the sheet parsing and the news
\* request succeed goes through download_file, analyze_positions,
\* retrieve_news_with_rag and display_results in this order and ends with
\* the three tables printed.
C9_RunPrintsThreeTables ==
  SuccessfulRunEnded =>
    /\ pc = "done"
    /\ steps = <<"download_file", "analyze_positions", "retrieve_news_with_rag",
                 "display_results">>
    /\ Len(stdout) >= 3
    /\ SubSeq(stdout, Len(stdout) - 2, Len(stdout))
         = DisplayPrinted(new_positions, closed_positions, short_positions_by_asset)

\* retrieve_news_with_rag got as far as line 152: the news request was
\* answered (lines 131-149 raise nothing once it was)
ReachedInference ==
  /\ Len(steps) >= 3
  /\ steps[3] = "retrieve_news_with_rag"
  /\ requests[1].status # 0

\* C10 (Spec): a call of retrieve_news_with_rag that reaches the inference
\* step raises AttributeError there (llm_inference_endpoint is assigned
\* nowhere), before any POST is sent; nothing catches it and the script
\* ends without display_results; the news request, the creation of the
\* collection and the upserts of the call have taken effect.
C10_InferenceStepFails ==
  ReachedInference =>
    /\ "llm_inference_endpoint" \notin attrs
    /\ exc = Raised("AttributeError", 152)
    /\ pc = "terminated"
    /\ steps = <<"download_file", "analyze_positions", "retrieve_news_with_rag">>
    /\ \A i \in DOMAIN requests : requests[i].method # "POST"
    /\ requests = <<[method |-> "GET", target |-> "news_endpoint",
                     status |-> requests[1].status]>>
    /\ COLLECTION_NAME \in collections
    /\ Len(points) = Len(articles)
    /\ \A i \in DOMAIN articles : points[i].payload = articles[i]

C10_Witness ==
  /\ ReachedInference
  /\ exc = Raised("AttributeError", 152)
  /\ pc = "terminated"
  /\ Len(articles) = 2
  /\ Len(points) = 2
  /\ Len(results) = 2

=============================================================================
